---------------------------- MODULE Spec2Model ----------------------------
(***************************************************************************)
(* A model of the ClassGPT front end's synchronisation layer:              *)
(*   - ChatSession      (pages/Chat.tsx: transcript, citation resolution)  *)
(*   - DocumentRegistry (components/ClassSelector.tsx: presigned URL cache)*)
(*   - RefreshBus       (context/DocumentRefreshContext: shared counter)   *)
(* Texts and filenames are sequences of one-character strings, so that     *)
(* trim(), toLowerCase() and the dedup key are computed, not assumed.      *)
(***************************************************************************)
EXTENDS Integers, Sequences, FiniteSets, TLC

\* ------------------------------------------------------------------ bounds
\* accepted submits per behaviour, concurrency specification
MaxSubmits == 2
\* accepted submits per behaviour, answer-processing specification
MaxAnswerSubmits == 1
\* page numbers run over 0..MaxPage
MaxPage == 2
\* chunk references per answer in the concurrency specification
MaxChatChunks == 1
\* RefreshBus increments per behaviour
MaxRefresh == 1
\* document-list fetches of the Chat effect in flight at once
MaxMapFetches == 1
\* the query asks the backend for top_k chunks
TOP_K == 3
\* clock steps per behaviour
MaxTicks == 2
\* batch presign requests per behaviour
MaxBatches == 2

\* document-list requests of the registry in flight at once
MaxDocFetches == 2
\* DELETE requests in flight at once (the guard is what keeps them at one)
MaxDeletes == 2
\* class-list requests in flight at once
MaxClassFetches == 2
\* create-class requests in flight at once
MaxCreates == 1
\* delete-class requests in flight or carried out by the backend
MaxClassDeletes == 1
\* login or register calls in flight at once, and session checks in flight at once
MaxAuth == 2
\* a short delay (a request's latency), in milliseconds
ShortDelay == 1

\* ------------------------------------------------------------------- texts
GREETING_TEXT ==
    <<"H","e","l","l","o","!"," ","I","'","m"," ","y","o","u","r"," ","C","l","a","s","s","G","P","T"," ","a","s","s","i","s","t","a","n","t","."," ","A","s","k"," ","m","e"," ","a","n","y","t","h","i","n","g"," ","a","b","o","u","t"," ","y","o","u","r"," ","c","o","u","r","s","e"," ","m","a","t","e","r","i","a","l","s",".">>
NO_ANSWER_TEXT ==
    <<"S","o","r","r","y",","," ","I"," ","c","o","u","l","d"," ","n","o","t"," ","f","i","n","d"," ","a","n"," ","a","n","s","w","e","r",".">>
ERROR_PREFIX ==
    <<"S","o","r","r","y",","," ","t","h","e","r","e"," ","w","a","s"," ","a","n"," ","e","r","r","o","r"," ","c","o","n","t","a","c","t","i","n","g"," ","t","h","e"," ","a","s","s","i","s","t","a","n","t","."," ">>
DETAILS_PREFIX ==
    <<"D","e","t","a","i","l","s",":"," ">>
INVALID_JSON_MSG ==
    <<"I","n","v","a","l","i","d"," ","J","S","O","N"," ","r","e","s","p","o","n","s","e"," ","f","r","o","m"," ","s","e","r","v","e","r",".">>
UNKNOWN_ERROR_MSG ==
    <<"U","n","k","n","o","w","n"," ","e","r","r","o","r"," ","f","r","o","m"," ","b","a","c","k","e","n","d",".">>
IDK_TEXT ==
    <<"i"," ","d","o","n","'","t"," ","k","n","o","w",".">>
UNKNOWN_DOCUMENT ==
    <<"U","n","k","n","o","w","n"," ","d","o","c","u","m","e","n","t">>
PAGE_LABEL ==
    <<","," ","p","a","g","e"," ">>

\* what the environment may send or type
ANSWER_IDK ==
    <<"I"," ","d","o","n","'","t"," ","k","n","o","w",".">>
ANSWER_IDK_PADDED ==
    <<" ","I"," ","D","O","N","'","T"," ","K","N","O","W",".","\n">>
ANSWER_NEAR_IDK ==
    <<"I"," ","d","o","n","'","t"," ","k","n","o","w">>
ANSWER_PLAIN ==
    <<"M","i","d","t","e","r","m"," ","a","n","d"," ","f","i","n","a","l",".">>
DETAIL_RATE ==
    <<"R","a","t","e"," ","l","i","m","i","t"," ","e","x","c","e","e","d","e","d">>
NETWORK_MSG ==
    <<"F","a","i","l","e","d"," ","t","o"," ","f","e","t","c","h">>
QUESTION ==
    <<"W","h","a","t"," ","i","s"," ","t","h","e"," ","e","x","a","m"," ","f","o","r","m","a","t","?">>
BLANKS ==
    <<" ","\t">>
EMPTY ==
    <<>>

UpperCase ==
    <<"A","B","C","D","E","F","G","H","I","J","K","L","M","N","O","P","Q","R","S","T","U","V","W","X","Y","Z">>
LowerCase ==
    <<"a","b","c","d","e","f","g","h","i","j","k","l","m","n","o","p","q","r","s","t","u","v","w","x","y","z">>
Digits ==
    <<"0","1","2","3","4","5","6","7","8","9">>

\* String.prototype.trim strips white space and line terminators at both ends
IsWhiteSpace(ch) ==
    ch \in {" ", "\t", "\n", "\r"}

RECURSIVE TrimStart(_)
TrimStart(s) ==
    IF s = <<>> THEN s
    ELSE IF IsWhiteSpace(Head(s)) THEN TrimStart(Tail(s)) ELSE s

RECURSIVE TrimEnd(_)
TrimEnd(s) ==
    IF s = <<>> THEN s
    ELSE IF IsWhiteSpace(s[Len(s)]) THEN TrimEnd(SubSeq(s, 1, Len(s) - 1)) ELSE s

Trim(s) ==
    TrimEnd(TrimStart(s))

ToLowerChar(ch) ==
    IF \E i \in 1..Len(UpperCase) : UpperCase[i] = ch
    THEN LowerCase[CHOOSE i \in 1..Len(UpperCase) : UpperCase[i] = ch]
    ELSE ch

ToLowerCase(s) ==
    [i \in 1..Len(s) |-> ToLowerChar(s[i])]

\* a number as a template literal prints it
RECURSIVE NumberToString(_)
NumberToString(n) ==
    IF n < 10 THEN <<Digits[n + 1]>>
    ELSE NumberToString(n \div 10) \o <<Digits[(n % 10) + 1]>>

IsPrefix(s, t) ==
    Len(s) <= Len(t) /\ SubSeq(t, 1, Len(s)) = s

\* ------------------------------------------------------- classes, documents
NoClass == "null"
Classes == {"c1", "c2"}

\* The backend's documents. d1 and d2 carry the same filename; d9 is ingested
\* while the client runs; dx was deleted but its chunks are still indexed.
Docs == {"d1", "d2", "d9", "dx", "d3"}
InitialDocs == {"d1", "d2", "d3"}
LateDocs == {"d9"}

DocClass(d) ==
    IF d = "d3" THEN "c2" ELSE "c1"

DocFilename(d) ==
    CASE d = "d1" -> <<"a">>
      [] d = "d2" -> <<"a">>
      [] d = "d9" -> <<"a","|","1">>
      [] d = "d3" -> <<"b">>
      [] OTHER    -> <<"x">>

Pages == 0..MaxPage

EmptyMap == [d \in {} |-> <<>>]

\* no credential: null
NoToken == "null"

\* the credential localStorage holds when the page is loaded
STORED_AT_LOAD == "t0"

\* data.access_token: the credentials the backend issues
Tokens == {"t1", "t2"}

\* the closure of a deleteClass(classId) call: its argument, and the selection,
\* class list and credential of the render that made it
DeleteClass(id, sel, known, tok) ==
    [id |-> id, capSel |-> sel, capClasses |-> known, token |-> tok]

\* no deleteClass waits on a class-list request
NoDelete == DeleteClass(NoClass, NoClass, <<>>, FALSE)

\* deleteClass del resumed from `await refreshClasses()`; listed and data tell
\* what that request brought
Fallback(del, listed, data) ==
    [del |-> del, listed |-> listed, data |-> data]

NoFallback == Fallback(NoDelete, FALSE, <<>>)

VARIABLES
    selectedClass,     \* ClassContext: id of the selected class, or NoClass
    refreshCount,      \* RefreshBus counter
    serverDocs,        \* environment: ids the backend lists
    docIdToFilename,   \* Chat state
    messages,          \* Chat state: the transcript
    inputValue,        \* Chat state
    subs,              \* one record per handleSubmit invocation (closure + position)
    nSubmits,          \* number of accepted submits
    mapFetches,        \* Chat effect: document-list fetches in flight, per class
    ev,                \* history: a rejected or completed submit made the last step
    now,               \* Date.now(), in milliseconds since the start
    nTicks,            \* number of clock steps taken
    documents,         \* ClassSelector state: the local document list, id -> status
    presignedUrls,     \* ClassSelector state: id -> URL
    urlCacheExpiry,    \* ClassSelector state: id -> expiry timestamp
    batches,           \* POST /api/presign/batch requests in flight
    nBatches,          \* number of batch requests issued
    lastGet,           \* history: what the last getPresignedUrl call or completion returned
    docStatus,         \* environment: the status the backend reports for each document
    docFetches,        \* GET /api/documents requests of refreshDocuments in flight
    timers,            \* the browser's armed poll intervals, per class of their closure
    pollEffect,        \* the class whose interval the polling effect's cleanup clears
    deletingDocId,     \* ClassSelector state: the delete guard
    deletes,           \* DELETE /api/documents/:id requests in flight
    mounted,           \* ClassSelector is mounted
    dev,               \* history: what the last deleteDocument call or completion did
    settled,           \* history: a fetch showed every document processed, nothing reset it
    token,             \* UserContext: a credential is held
    classes,           \* ClassContext state: the local class list
    serverClasses,     \* environment: the class list of the backend
    classFetches,      \* GET /api/classes requests of refreshClasses in flight
    creates,           \* POST /api/classes requests of addClass in flight
    cev,               \* history: what the last ClassContext call or completion did
    classDeletes,      \* DELETE /api/classes/:id requests of deleteClass in flight
    deletedClasses,    \* environment: the class ids the backend has deleted
    fallback,          \* the deleteClass whose refreshClasses has just returned
    files,             \* Upload state: the files chosen
    isUploading,       \* Upload state: the upload guard
    uploads,           \* POST /api/upload requests in flight
    uev,               \* history: what the last handleUpload call or completion did
    user,              \* UserContext state: a user profile is held
    storedToken,       \* localStorage: the credential stored under 'token'
    heldToken,         \* UserContext state: the credential held (`token`)
    isLoading,         \* UserContext state: a login or register is under way
    auths,             \* login and register calls in flight, with their position
    sessionChecks,     \* GET /auth/me requests of the fetchUser effect in flight
    aev                \* history: what the last UserContext call or completion did

chatVars == <<selectedClass, refreshCount, serverDocs, docIdToFilename, messages,
              inputValue, subs, nSubmits, mapFetches>>

urlVars == <<now, nTicks, documents, presignedUrls, urlCacheExpiry, batches, nBatches,
             lastGet>>

\* the polling effect's part of the ClassSelector state
pollVars == <<timers, pollEffect>>

regVars == <<docStatus, docFetches, deletingDocId, deletes, mounted, dev, settled>>

\* deleteClass's part of the ClassContext state
delVars == <<classDeletes, deletedClasses, fallback>>

classVars == <<token, classes, serverClasses, classFetches, creates, cev, delVars>>

uploadVars == <<files, isUploading, uploads, uev>>

userVars == <<user, storedToken, heldToken, isLoading, auths, sessionChecks, aev>>

\* the state of the Upload page and of UserContext
appVars == <<uploadVars, userVars>>

vars == <<chatVars, ev, urlVars, pollVars, regVars, classVars, appVars>>

\* ------------------------------------------------------------ ChatSession
NoCitations == [present |-> FALSE, list |-> <<>>]

WithCitations(cs) == [present |-> TRUE, list |-> cs]

\* Date.now() when the page was loaded, in milliseconds
PAGE_LOADED == 1000000

\* Date.now()
DateNow ==
    PAGE_LOADED + now

\* sid is history: the submit a message stems from (0: the greeting)
Greeting ==
    [id |-> 1, text |-> GREETING_TEXT, isUser |-> FALSE, citations |-> NoCitations,
     sid |-> 0]

UserMessage(text, s) ==
    [id |-> DateNow, text |-> text, isUser |-> TRUE, citations |-> NoCitations,
     sid |-> s]

\* data.answer || 'Sorry, I could not find an answer.'
AiMessage(answer, cs, s) ==
    [id |-> DateNow + 1, text |-> IF answer = <<>> THEN NO_ANSWER_TEXT ELSE answer,
     isUser |-> FALSE, citations |-> WithCitations(cs), sid |-> s]

\* the catch block's message: err.message ? 'Details: ' + err.message : ''
ErrorMessage(msg, s) ==
    [id |-> DateNow + 1,
     text |-> ERROR_PREFIX \o (IF msg = <<>> THEN <<>> ELSE DETAILS_PREFIX \o msg),
     isUser |-> FALSE, citations |-> NoCitations, sid |-> s]

\* docs.forEach(doc => { map[doc.id] = doc.filename })
MapOfDocs(ds) ==
    [d \in ds |-> DocFilename(d)]

\* GET /api/documents?class_id=c, answered from the backend's current state
ListDocuments(c) ==
    {d \in serverDocs : DocClass(d) = c}

\* docIdToFilename[id] is truthy
Known(map, id) ==
    id \in DOMAIN map /\ map[id] # <<>>

\* docIdToFilename[chunk.document_id] || 'Unknown document'
ResolveFilename(map, id) ==
    IF Known(map, id) THEN map[id] ELSE UNKNOWN_DOCUMENT

MapChunks(chunks, map) ==
    [i \in 1..Len(chunks) |->
        [document_id |-> chunks[i].document_id,
         page_number |-> chunks[i].page_number,
         filename    |-> ResolveFilename(map, chunks[i].document_id)]]

CitationKeyByDocumentId(c) ==
    <<c.document_id>> \o <<"|">> \o NumberToString(c.page_number)

\* `${c.filename}|${c.page_number}`
CitationKey(c) ==
    c.filename \o <<"|">> \o NumberToString(c.page_number)

RECURSIVE FilterCitationsKeepUnknown(_, _)
FilterCitationsKeepUnknown(cs, seen) ==
    IF cs = <<>> THEN <<>>
    ELSE LET c == Head(cs)
             key == CitationKey(c)
         IN  IF key \in seen THEN FilterCitationsKeepUnknown(Tail(cs), seen)
             ELSE <<c>> \o FilterCitationsKeepUnknown(Tail(cs), seen \cup {key})

\* .filter(c => ...) of lines 98-105, with its `seen` set
RECURSIVE FilterCitations(_, _)
FilterCitations(cs, seen) ==
    IF cs = <<>> THEN <<>>
    ELSE LET c == Head(cs)
             key == CitationKey(c)
         IN  IF c.filename = UNKNOWN_DOCUMENT THEN FilterCitations(Tail(cs), seen)
             ELSE IF key \in seen THEN FilterCitations(Tail(cs), seen)
             ELSE <<c>> \o FilterCitations(Tail(cs), seen \cup {key})

Citations(chunks, map) ==
    FilterCitations(MapChunks(chunks, map), {})

HasUnknownDocuments(chunks, map) ==
    \E i \in 1..Len(chunks) : ~Known(map, chunks[i].document_id)

\* The map the retry reads after `await refreshDocumentMapping()`: the handler's
\* closure still holds the docIdToFilename of the render it was created in.
RetryMap(sub, current) ==
    sub.capMap

NoData == [answer |-> <<>>, chunks |-> <<>>]

\* One handleSubmit invocation: its position (pc), what its closure captured
\* (capClass, capMap), the parsed answer it holds while suspended in the refresh
\* (data) and, as history, the state's docIdToFilename when the answer arrived.
IdleSub ==
    [pc |-> "idle", capClass |-> NoClass, capMap |-> EmptyMap, data |-> NoData,
     liveMap |-> EmptyMap]

DoneSub ==
    [IdleSub EXCEPT !.pc = "done"]

\* History of the last step, when it rejected a submit or completed one: the
\* submit, the kind of response and, for a completed submit, the answer and the
\* maps it worked with. Any other step records NoEvent.
Evt(op, s, kind) ==
    [op |-> op, sid |-> s, kind |-> kind, data |-> NoData, capMap |-> EmptyMap,
     liveMap |-> EmptyMap, refreshed |-> FALSE]

NoEvent ==
    Evt("step", 0, "")

Completion(s, kind, data, capMap, liveMap, refreshed) ==
    [op |-> "completion", sid |-> s, kind |-> kind, data |-> data, capMap |-> capMap,
     liveMap |-> liveMap, refreshed |-> refreshed]

\* the effect of lines 42-59, run with the selected class c
ChatResetEffect(c) ==
    /\ messages' = <<Greeting>>
    /\ IF c # NoClass
       THEN /\ mapFetches' = [mapFetches EXCEPT ![c] = @ + 1]
            /\ UNCHANGED docIdToFilename
       ELSE /\ docIdToFilename' = EmptyMap
            /\ UNCHANGED mapFetches

FetchesInFlight ==
    mapFetches["c1"] + mapFetches["c2"]

\* ClassContext changes the selection; Chat's effect runs on the new value
SelectedClassChanges(c) ==
    /\ c # selectedClass
    /\ c # NoClass => FetchesInFlight < MaxMapFetches
    /\ selectedClass' = c
    /\ ChatResetEffect(c)
    /\ ev' = NoEvent
    /\ UNCHANGED <<refreshCount, serverDocs, inputValue, subs, nSubmits>>

\* RefreshBus: triggerRefresh() raises the counter; Chat's effect depends on it
TriggerRefresh ==
    /\ refreshCount < MaxRefresh
    /\ selectedClass # NoClass => FetchesInFlight < MaxMapFetches
    /\ refreshCount' = refreshCount + 1
    /\ ChatResetEffect(selectedClass)
    /\ ev' = NoEvent
    /\ UNCHANGED <<selectedClass, serverDocs, inputValue, subs, nSubmits>>

\* the effect's fetch(...).then(res => res.json()).then(docs => ...)
MapFetchResponse(c, ok) ==
    /\ mapFetches[c] > 0
    /\ mapFetches' = [mapFetches EXCEPT ![c] = @ - 1]
    /\ docIdToFilename' = IF ok THEN MapOfDocs(ListDocuments(c)) ELSE docIdToFilename
    /\ ev' = NoEvent
    /\ UNCHANGED <<selectedClass, refreshCount, serverDocs, messages, inputValue,
                   subs, nSubmits>>

\* onChange of the input, which is disabled while no class is selected
SetInput(t) ==
    /\ selectedClass # NoClass
    /\ inputValue' = t
    /\ ev' = NoEvent
    /\ UNCHANGED <<selectedClass, refreshCount, serverDocs, docIdToFilename, messages,
                   subs, nSubmits, mapFetches>>

SubmitRejectedWithoutTrim ==
    inputValue = <<>> \/ selectedClass = NoClass

\* if (!inputValue.trim() || !selectedClass) return;
SubmitRejected ==
    Trim(inputValue) = <<>> \/ selectedClass = NoClass

HandleSubmit(maxSubs) ==
    IF SubmitRejected
    THEN /\ ev' = Evt("submitRejected", 0, "")
         /\ UNCHANGED chatVars
    ELSE /\ nSubmits < maxSubs
         /\ nSubmits' = nSubmits + 1
         /\ messages' = Append(messages, UserMessage(inputValue, nSubmits + 1))
         /\ inputValue' = <<>>
         /\ subs' = [subs EXCEPT ![nSubmits + 1] =
                        [IdleSub EXCEPT !.pc = "query", !.capClass = selectedClass,
                                        !.capMap = docIdToFilename]]
         /\ ev' = NoEvent
         /\ UNCHANGED <<selectedClass, refreshCount, serverDocs, docIdToFilename,
                        mapFetches>>

FailQuerySilently(s, msg, kind) ==
    /\ subs' = [subs EXCEPT ![s] = DoneSub]
    /\ ev' = Completion(s, kind, NoData, subs[s].capMap, docIdToFilename, FALSE)
    /\ UNCHANGED <<selectedClass, refreshCount, serverDocs, docIdToFilename, inputValue,
                   nSubmits, mapFetches, messages>>

FailQueryAndRetry(s, msg, kind) ==
    /\ messages' = Append(messages, ErrorMessage(msg, s))
    /\ subs' = [subs EXCEPT ![s].pc = "query"]
    /\ ev' = Completion(s, kind, NoData, subs[s].capMap, docIdToFilename, FALSE)
    /\ UNCHANGED <<selectedClass, refreshCount, serverDocs, docIdToFilename, inputValue,
                   nSubmits, mapFetches>>

\* the catch block: one assistant message describing the error
FailQuery(s, msg, kind) ==
    /\ messages' = Append(messages, ErrorMessage(msg, s))
    /\ subs' = [subs EXCEPT ![s] = DoneSub]
    /\ ev' = Completion(s, kind, NoData, subs[s].capMap, docIdToFilename, FALSE)
    /\ UNCHANGED <<selectedClass, refreshCount, serverDocs, docIdToFilename, inputValue,
                   nSubmits, mapFetches>>

PrependAnswer(s, data, cs) ==
    messages' = <<AiMessage(data.answer, cs, s)>> \o messages

\* lines 125-131
AppendAnswer(s, data, cs) ==
    messages' = Append(messages, AiMessage(data.answer, cs, s))

\* a 2xx response with a parsed body
AnswerArrives(s, data) ==
    LET sub == subs[s]
        cs  == Citations(data.chunks, sub.capMap)
    IN  IF HasUnknownDocuments(data.chunks, sub.capMap)
        THEN \* await refreshDocumentMapping(): the fetch is issued, the handler suspends
             /\ subs' = [subs EXCEPT ![s].pc = "refresh", ![s].data = data,
                                     ![s].liveMap = docIdToFilename]
             /\ ev' = NoEvent
             /\ UNCHANGED <<selectedClass, refreshCount, serverDocs, docIdToFilename,
                            messages, inputValue, nSubmits, mapFetches>>
        ELSE /\ AppendAnswer(s, data, cs)
             /\ subs' = [subs EXCEPT ![s] = DoneSub]
             /\ ev' = Completion(s, "answer", data, sub.capMap, docIdToFilename, FALSE)
             /\ UNCHANGED <<selectedClass, refreshCount, serverDocs, docIdToFilename,
                            inputValue, nSubmits, mapFetches>>

\* chunk references the backend can return for a query on class c
ChunkValues(c, pages) ==
    {[document_id |-> d, page_number |-> p] :
        d \in {x \in Docs : DocClass(x) = c /\ x \in serverDocs \cup {"dx"}}, p \in pages}

RECURSIVE SeqsUpTo(_, _)
SeqsUpTo(S, n) ==
    IF n = 0 THEN {<<>>}
    ELSE LET shorter == SeqsUpTo(S, n - 1)
         IN  shorter \cup {Append(q, x) : q \in shorter, x \in S}

\* completion of fetch('/query') for submit s
QueryResponse(s, answers, pages, maxChunks) ==
    /\ subs[s].pc = "query"
    /\ \/ FailQuery(s, NETWORK_MSG, "network")
       \/ FailQuery(s, INVALID_JSON_MSG, "badjson")
       \/ \E detail \in {DETAIL_RATE, <<>>} :
             FailQuery(s, IF detail = <<>> THEN UNKNOWN_ERROR_MSG ELSE detail, "error")
       \/ \E a \in answers, cl \in SeqsUpTo(ChunkValues(subs[s].capClass, pages), maxChunks) :
             AnswerArrives(s, [answer |-> a, chunks |-> cl])

\* completion of refreshDocumentMapping() inside handleSubmit, then lines 111-131
RefreshResponse(s, ok) ==
    LET sub == subs[s]
        newMap == IF ok THEN MapOfDocs(ListDocuments(sub.capClass)) ELSE docIdToFilename
        cs == Citations(sub.data.chunks, RetryMap(sub, newMap))
    IN  /\ sub.pc = "refresh"
        /\ docIdToFilename' = newMap
        /\ AppendAnswer(s, sub.data, cs)
        /\ subs' = [subs EXCEPT ![s] = DoneSub]
        /\ ev' = Completion(s, IF ok THEN "answerRefreshed" ELSE "answerRefreshFailed",
                            sub.data, sub.capMap, sub.liveMap, TRUE)
        /\ UNCHANGED <<selectedClass, refreshCount, serverDocs, inputValue, nSubmits,
                       mapFetches>>

\* environment: the ingestion pipeline finishes a document
BackendAddsDocument(d) ==
    /\ d \notin serverDocs
    /\ serverDocs' = serverDocs \cup {d}
    /\ ev' = NoEvent
    /\ UNCHANGED <<selectedClass, refreshCount, docIdToFilename, messages, inputValue,
                   subs, nSubmits, mapFetches>>

\* what the transcript shows under an assistant message (lines 163-171)
SourceLabel(c) ==
    c.filename \o (IF c.page_number > 0 THEN PAGE_LABEL \o NumberToString(c.page_number)
                   ELSE <<>>)

RenderedSourcesCaseSensitive(m) ==
    IF /\ m.citations.present
       /\ Len(m.citations.list) > 0
       /\ Trim(m.text) # IDK_TEXT
    THEN [i \in 1..Len(m.citations.list) |-> SourceLabel(m.citations.list[i])]
    ELSE <<>>

RenderedSources(m) ==
    IF /\ m.citations.present
       /\ Len(m.citations.list) > 0
       /\ ToLowerCase(Trim(m.text)) # IDK_TEXT
    THEN [i \in 1..Len(m.citations.list) |-> SourceLabel(m.citations.list[i])]
    ELSE <<>>

\* ------------------------------------------------------------ specifications
Init ==
    /\ selectedClass = NoClass
    /\ refreshCount = 0
    /\ serverDocs = InitialDocs
    /\ docIdToFilename = EmptyMap
    /\ messages = <<Greeting>>
    /\ inputValue = <<>>
    /\ subs = [s \in 1..MaxSubmits |-> IdleSub]
    /\ nSubmits = 0
    /\ mapFetches = [c \in Classes |-> 0]
    /\ ev = NoEvent
    /\ now = 0
    /\ nTicks = 0
    /\ documents = EmptyMap
    /\ presignedUrls = EmptyMap
    /\ urlCacheExpiry = EmptyMap
    /\ batches = {}
    /\ nBatches = 0
    /\ lastGet = [kind |-> "none", doc |-> "", url |-> [doc |-> "", issued |-> 0, received |-> 0],
                  at |-> 0, expiry |-> 0]
    /\ docStatus = [d \in Docs |-> IF d \in {"d1", "d9"} THEN "processing"
                                   ELSE IF d = "d3" THEN "" ELSE "processed"]
    /\ docFetches = {}
    /\ timers = [c \in Classes |-> 0]
    /\ pollEffect = NoClass
    /\ deletingDocId = "null"
    /\ deletes = {}
    /\ mounted = TRUE
    /\ dev = "none"
    /\ settled = FALSE
    /\ token = TRUE
    /\ classes = <<>>
    /\ serverClasses = <<"c1">>
    /\ classFetches = {[capSel |-> NoClass, data |-> <<"c1">>, then |-> NoDelete]}
    /\ creates = {}
    /\ cev = "none"
    /\ classDeletes = {}
    /\ deletedClasses = {}
    /\ fallback = NoFallback
    /\ files = {}
    /\ isUploading = FALSE
    /\ uploads = {}
    /\ uev = "none"
    /\ user = FALSE
    /\ storedToken = STORED_AT_LOAD
    /\ heldToken = STORED_AT_LOAD
    /\ isLoading = FALSE
    /\ auths = {}
    /\ sessionChecks = 1
    /\ aev = "none"

Inputs == {EMPTY, BLANKS, QUESTION}

ChatAnswers == {ANSWER_PLAIN}

\* several submits in flight, class changes and RefreshBus increments; answers of
\* at most MaxChatChunks chunk references over a fixed backend document set
ChatNext ==
    \/ \E c \in Classes \cup {NoClass} : SelectedClassChanges(c) /\ UNCHANGED <<urlVars, pollVars, regVars, classVars, appVars>>
    \/ TriggerRefresh /\ UNCHANGED <<urlVars, pollVars, regVars, classVars, appVars>>
    \/ \E c \in Classes, ok \in BOOLEAN : MapFetchResponse(c, ok) /\ UNCHANGED <<urlVars, pollVars, regVars, classVars, appVars>>
    \/ \E t \in Inputs : SetInput(t) /\ UNCHANGED <<urlVars, pollVars, regVars, classVars, appVars>>
    \/ HandleSubmit(MaxSubmits) /\ UNCHANGED <<urlVars, pollVars, regVars, classVars, appVars>>
    \/ \E s \in 1..MaxSubmits :
          QueryResponse(s, ChatAnswers, {1}, MaxChatChunks) /\ UNCHANGED <<urlVars, pollVars, regVars, classVars, appVars>>
    \/ \E s \in 1..MaxSubmits, ok \in BOOLEAN : RefreshResponse(s, ok) /\ UNCHANGED <<urlVars, pollVars, regVars, classVars, appVars>>

SpecChat == Init /\ [][ChatNext]_vars

AnswerTexts == {ANSWER_PLAIN, ANSWER_IDK, ANSWER_IDK_PADDED, ANSWER_NEAR_IDK, EMPTY}

\* one submit, every answer of up to TOP_K chunk references
AnswerNext ==
    \/ SelectedClassChanges("c1") /\ UNCHANGED <<urlVars, pollVars, regVars, classVars, appVars>>
    \/ \E ok \in BOOLEAN : MapFetchResponse("c1", ok) /\ UNCHANGED <<urlVars, pollVars, regVars, classVars, appVars>>
    \/ SetInput(QUESTION) /\ UNCHANGED <<urlVars, pollVars, regVars, classVars, appVars>>
    \/ HandleSubmit(MaxAnswerSubmits) /\ UNCHANGED <<urlVars, pollVars, regVars, classVars, appVars>>
    \/ \E s \in 1..MaxAnswerSubmits :
          QueryResponse(s, AnswerTexts, Pages, TOP_K) /\ UNCHANGED <<urlVars, pollVars, regVars, classVars, appVars>>
    \/ \E s \in 1..MaxAnswerSubmits, ok \in BOOLEAN :
          RefreshResponse(s, ok) /\ UNCHANGED <<urlVars, pollVars, regVars, classVars, appVars>>
    \/ \E d \in LateDocs : BackendAddsDocument(d) /\ UNCHANGED <<urlVars, pollVars, regVars, classVars, appVars>>

SpecAnswer == Init /\ [][AnswerNext]_vars

\* the clock of Date.now() advances
ClockTick(dt) ==
    /\ nTicks < MaxTicks
    /\ nTicks' = nTicks + 1
    /\ now' = now + dt
    /\ UNCHANGED <<chatVars, ev, documents, presignedUrls, urlCacheExpiry, batches,
                   nBatches, lastGet>>

\* the user types a question, which takes time
TypeQuestion(dt) ==
    /\ SetInput(QUESTION)
    /\ nTicks < MaxTicks
    /\ nTicks' = nTicks + 1
    /\ now' = now + dt
    /\ UNCHANGED <<documents, presignedUrls, urlCacheExpiry, batches, nBatches, lastGet>>

\* submits and completions of one class against the clock
IdNext ==
    \/ ClockTick(ShortDelay) /\ UNCHANGED <<pollVars, regVars, classVars, appVars>>
    \/ SelectedClassChanges("c1") /\ UNCHANGED <<urlVars, pollVars, regVars, classVars, appVars>>
    \/ \E ok \in BOOLEAN : MapFetchResponse("c1", ok) /\ UNCHANGED <<urlVars, pollVars, regVars, classVars, appVars>>
    \/ TypeQuestion(ShortDelay) /\ UNCHANGED <<pollVars, regVars, classVars, appVars>>
    \/ HandleSubmit(MaxSubmits) /\ UNCHANGED <<urlVars, pollVars, regVars, classVars, appVars>>
    \/ \E s \in 1..MaxSubmits :
          QueryResponse(s, ChatAnswers, {1}, MaxChatChunks) /\ UNCHANGED <<urlVars, pollVars, regVars, classVars, appVars>>
    \/ \E s \in 1..MaxSubmits, ok \in BOOLEAN :
          RefreshResponse(s, ok) /\ UNCHANGED <<urlVars, pollVars, regVars, classVars, appVars>>

SpecIds == Init /\ [][IdNext]_vars

Spec == SpecChat

\* ------------------------------------------------------- presigned URL cache
\* now + (50 * 60 * 1000)
CACHE_TTL == 50 * 60 * 1000

\* a long wait: with one short delay it reaches the time to live exactly
LongDelay == CACHE_TTL - ShortDelay

UrlDocs == {"d1", "d2"}

\* A URL is opaque to the client. As history it carries when the batch request
\* that fetched it was issued and when its response was received.
Url(d, issued, received) ==
    [doc |-> d, issued |-> issued, received |-> received]

NoUrl == Url("", 0, 0)

NoGet ==
    [kind |-> "none", doc |-> "", url |-> NoUrl, at |-> 0, expiry |-> 0]

\* urlCacheExpiry[docId] || 0
ExpiryOf(expiry, d) ==
    IF d \in DOMAIN expiry THEN expiry[d] ELSE 0

CacheHitAtExpiry(d, t) ==
    d \in DOMAIN presignedUrls /\ t <= ExpiryOf(urlCacheExpiry, d)

\* if (presignedUrls[docId] && now < expiry)
CacheHit(d, t) ==
    d \in DOMAIN presignedUrls /\ t < ExpiryOf(urlCacheExpiry, d)

MergeDroppingPrevious(prev, more) ==
    more

\* { ...prev, ...more }
Merge(prev, more) ==
    [d \in DOMAIN prev \cup DOMAIN more |-> IF d \in DOMAIN more THEN more[d] ELSE prev[d]]

\* a batch request: who issued it, for which ids, when, and what its closure holds
Batch(kind, ids, d, snapshot) ==
    [kind |-> kind, ids |-> ids, doc |-> d, issued |-> now, snapshot |-> snapshot]

Tick(dt) ==
    /\ nTicks < MaxTicks
    /\ nTicks' = nTicks + 1
    /\ now' = now + dt
    /\ UNCHANGED <<documents, presignedUrls, urlCacheExpiry, batches, nBatches, lastGet>>

HasPendingProcessingOnly(docs) ==
    \E d \in DOMAIN docs : docs[d] = "processing"

\* documents.some(doc => doc.status && doc.status !== 'processed')
HasPending(docs) ==
    \E d \in DOMAIN docs : docs[d] # "" /\ docs[d] # "processed"

\* the polling effect (lines 60-69) run for a render with selection sel and list
\* docs: the cleanup of its previous run, then its body
PollEffectWithoutCleanup(sel, docs) ==
    LET arms == sel # NoClass /\ DOMAIN docs # {} /\ HasPending(docs)
    IN  /\ timers' = IF arms THEN [timers EXCEPT ![sel] = @ + 1] ELSE timers
        /\ pollEffect' = IF arms THEN sel ELSE NoClass

PollEffect(sel, docs) ==
    LET cleared == IF pollEffect = NoClass THEN timers
                   ELSE [timers EXCEPT ![pollEffect] = @ - 1]
        arms == sel # NoClass /\ DOMAIN docs # {} /\ HasPending(docs)
    IN  /\ timers' = IF arms THEN [cleared EXCEPT ![sel] = @ + 1] ELSE cleared
        /\ pollEffect' = IF arms THEN sel ELSE NoClass

\* the pre-fetch effect (lines 135-152) run for a render with list docs
PrefetchEffect(docs) ==
    IF DOMAIN docs # {}
    THEN /\ nBatches' = IF nBatches < MaxBatches THEN nBatches + 1 ELSE nBatches
         /\ batches' = batches \cup {Batch("prefetch", DOMAIN docs, "", urlCacheExpiry)}
    ELSE UNCHANGED <<batches, nBatches>>

\* setDocuments(list) of refreshDocuments, then the effects that depend on
\* `documents`: polling (lines 60-69) and pre-fetch (lines 135-152)
SetDocuments(ds) ==
    /\ documents' = ds
    /\ PrefetchEffect(ds)
    /\ PollEffect(selectedClass, ds)
    /\ UNCHANGED <<now, nTicks, presignedUrls, urlCacheExpiry, lastGet>>

\* getPresignedUrl(docId) up to its await (the download button of a listed document)
GetPresignedUrl(d) ==
    /\ d \in DOMAIN documents
    /\ IF CacheHit(d, now)
       THEN /\ lastGet' = [kind |-> "cached", doc |-> d, url |-> presignedUrls[d],
                           at |-> now, expiry |-> ExpiryOf(urlCacheExpiry, d)]
            /\ UNCHANGED <<batches, nBatches>>
       ELSE /\ nBatches < MaxBatches
            /\ nBatches' = nBatches + 1
            /\ batches' = batches \cup {Batch("get", {d}, d, EmptyMap)}
            /\ lastGet' = [kind |-> "requested", doc |-> d, url |-> NoUrl,
                           at |-> now, expiry |-> ExpiryOf(urlCacheExpiry, d)]
    /\ UNCHANGED <<now, nTicks, documents, presignedUrls, urlCacheExpiry>>

\* the expiry the pre-fetch stores: Date.now() when the response is handled
PrefetchExpiry(b) ==
    now + CACHE_TTL

\* the expiry getPresignedUrl stores: its `now`, read before the request
GetExpiry(b) ==
    b.issued + CACHE_TTL

\* the response of a batch request: the ids it holds a URL for (none on failure)
BatchResponse(b, got) ==
    LET urls == [d \in got |-> Url(d, b.issued, now)]
    IN  /\ b \in batches
        /\ got \subseteq b.ids
        /\ batches' = batches \ {b}
        /\ presignedUrls' = Merge(presignedUrls, urls)
        /\ IF b.kind = "get"
           THEN /\ urlCacheExpiry' =
                      Merge(urlCacheExpiry, [d \in got |-> GetExpiry(b)])
                /\ lastGet' = [kind |-> IF b.doc \in got THEN "fetched" ELSE "failed",
                               doc |-> b.doc,
                               url |-> IF b.doc \in got THEN urls[b.doc] ELSE NoUrl,
                               at |-> now, expiry |-> 0]
           ELSE /\ urlCacheExpiry' =
                      Merge(b.snapshot, [d \in got |-> PrefetchExpiry(b)])
                /\ UNCHANGED lastGet
        /\ UNCHANGED <<now, nTicks, documents, nBatches>>

UrlNext ==
    \/ \E dt \in {ShortDelay, LongDelay} :
          Tick(dt) /\ UNCHANGED <<chatVars, ev, pollVars, regVars, classVars, appVars>>
    \/ \E ids \in SUBSET UrlDocs :
          /\ ids # {} => nBatches < MaxBatches
          /\ SetDocuments([d \in ids |-> "processed"])
          /\ UNCHANGED <<chatVars, ev, regVars, classVars, appVars>>
    \/ \E d \in UrlDocs :
          GetPresignedUrl(d) /\ UNCHANGED <<chatVars, ev, pollVars, regVars, classVars, appVars>>
    \/ \E b \in batches : \E got \in SUBSET b.ids :
          BatchResponse(b, got) /\ UNCHANGED <<chatVars, ev, pollVars, regVars, classVars, appVars>>

SpecUrl == Init /\ [][UrlNext]_vars


\* ------------------------------------------------------- DocumentRegistry
\* the Chat component's own state
chatOnly == <<docIdToFilename, messages, inputValue, subs, nSubmits, mapFetches, ev>>

\* deletingDocId: null
NoDoc == "null"

\* GET /api/documents?class_id=c as the backend answers it from the ids sdocs
ListStatus(sdocs, c) ==
    [d \in {x \in sdocs : DocClass(x) = c} |-> docStatus[d]]

\* a request of refreshDocuments in flight: the selection of its closure, and
\* the list the backend read for it
DocFetch(c, data) ==
    [class |-> c, data |-> data]

\* a state setter of an unmounted component does nothing
ApplyDocuments(ds) ==
    IF mounted THEN SetDocuments(ds) ELSE UNCHANGED <<urlVars, pollVars>>

\* refreshDocuments() of a render whose selection is c, up to its await
RefreshDocuments(c, sdocs) ==
    IF c = NoClass
    THEN /\ ApplyDocuments(EmptyMap)
         /\ UNCHANGED docFetches
    ELSE /\ Cardinality(docFetches) < MaxDocFetches
         /\ docFetches' = docFetches \cup {DocFetch(c, ListStatus(sdocs, c))}
         /\ UNCHANGED <<urlVars, pollVars>>

AllProcessed(docs) ==
    \A d \in DOMAIN docs : docs[d] = "processed"

\* the selection changes: the effect of lines 54-57 calls refreshDocuments, the
\* polling effect is cleaned up and run again for the new selection
RegistrySelectionChanges(c) ==
    /\ mounted
    /\ c # selectedClass
    /\ selectedClass' = c
    /\ IF c = NoClass
       THEN /\ documents' = EmptyMap
            /\ PollEffect(NoClass, EmptyMap)
            /\ UNCHANGED docFetches
       ELSE /\ Cardinality(docFetches) < MaxDocFetches
            /\ docFetches' = docFetches \cup {DocFetch(c, ListStatus(serverDocs, c))}
            /\ PollEffect(c, documents)
            /\ UNCHANGED documents
    /\ settled' = FALSE
    /\ dev' = "none"
    /\ UNCHANGED <<refreshCount, serverDocs, chatOnly, now, nTicks, presignedUrls,
                   urlCacheExpiry, batches, nBatches, lastGet, docStatus,
                   deletingDocId, deletes, mounted, classVars, appVars>>

\* triggerRefresh(): the effect of lines 54-57 depends on refreshCount
RegistryRefreshTriggered ==
    /\ mounted
    /\ refreshCount < MaxRefresh
    /\ refreshCount' = refreshCount + 1
    /\ RefreshDocuments(selectedClass, serverDocs)
    /\ settled' = FALSE
    /\ dev' = "none"
    /\ UNCHANGED <<selectedClass, serverDocs, chatOnly, docStatus, deletingDocId,
                   deletes, mounted, classVars, appVars>>

MergeDocuments(f, outcome) ==
    IF outcome = "ok" THEN Merge(documents, f.data) ELSE documents

\* what refreshDocuments hands to setDocuments when its request completes
FetchedDocuments(f, outcome) ==
    IF outcome = "ok" THEN f.data ELSE EmptyMap

\* refreshDocuments after its await: the response, an error response, or no response
DocFetchResponse(f, outcome) ==
    /\ f \in docFetches
    /\ docFetches' = docFetches \ {f}
    /\ ApplyDocuments(FetchedDocuments(f, outcome))
    /\ settled' = IF mounted /\ outcome = "ok" /\ AllProcessed(f.data) THEN TRUE
                  ELSE settled
    /\ dev' = IF outcome = "ok" THEN "fetched" ELSE "fetchFailed"
    /\ UNCHANGED <<chatVars, ev, docStatus, deletingDocId, deletes, mounted, classVars, appVars>>

\* the interval of lines 64-66 fires: refreshDocuments() of the closure it was
\* created in
PollTick(c) ==
    /\ timers[c] > 0
    /\ RefreshDocuments(c, serverDocs)
    /\ dev' = "none"
    /\ UNCHANGED <<chatVars, ev, docStatus, deletingDocId, deletes, mounted, settled,
                   classVars, appVars>>


\* a DELETE request in flight: the document, and the selection of the closure
\* whose refreshDocuments runs after it
Delete(d, c) ==
    [doc |-> d, class |-> c]

DeleteGuardIgnored ==
    FALSE

\* if (deletingDocId) return;
DeleteGuardClosed ==
    deletingDocId # NoDoc

\* handleDeleteDocument(docId) up to its await; confirmed is the answer to
\* window.confirm
HandleDeleteDocument(d, confirmed) ==
    /\ mounted
    /\ d \in DOMAIN documents
    /\ IF DeleteGuardClosed
       THEN /\ dev' = "rejected"
            /\ UNCHANGED <<deletingDocId, deletes>>
       ELSE IF ~confirmed
       THEN /\ dev' = "declined"
            /\ UNCHANGED <<deletingDocId, deletes>>
       ELSE /\ Cardinality(deletes) < MaxDeletes
            /\ deletingDocId' = d
            /\ deletes' = deletes \cup {Delete(d, selectedClass)}
            /\ dev' = "issued"
    /\ UNCHANGED <<chatVars, ev, urlVars, pollVars, docStatus, docFetches, mounted,
                   settled, classVars, appVars>>

\* the part of handleDeleteDocument after its await runs when fetch resolves,
\* which it does for every response, and not when it rejects
DeleteResumes(outcome) ==
    outcome # "network"

\* the DELETE request completes: a success response, an error response, or no
\* response (fetch rejects)
DeleteResponse(r, outcome) ==
    /\ r \in deletes
    /\ deletes' = deletes \ {r}
    /\ serverDocs' = IF outcome = "ok" THEN serverDocs \ {r.doc} ELSE serverDocs
    /\ IF DeleteResumes(outcome)
       THEN /\ deletingDocId' = IF mounted THEN NoDoc ELSE deletingDocId
            /\ RefreshDocuments(r.class, serverDocs')
            /\ dev' = "completed"
            /\ settled' = FALSE
       ELSE /\ dev' = "failed"
            /\ UNCHANGED <<deletingDocId, docFetches, urlVars, pollVars, settled>>
    /\ UNCHANGED <<selectedClass, refreshCount, chatOnly, docStatus, mounted, classVars, appVars>>

\* environment: the processing pipeline finishes a document, one way or the other
BackendProgress(d, st) ==
    /\ d \in serverDocs
    /\ docStatus[d] = "processing"
    /\ st \in {"processed", "failed"}
    /\ docStatus' = [docStatus EXCEPT ![d] = st]
    /\ dev' = "none"
    /\ UNCHANGED <<chatVars, ev, urlVars, pollVars, docFetches, deletingDocId, deletes,
                   mounted, settled, classVars, appVars>>

\* ClassSelector is torn down: the cleanup of the polling effect runs
Unmount ==
    /\ mounted
    /\ mounted' = FALSE
    /\ timers' = IF pollEffect = NoClass THEN timers
                 ELSE [timers EXCEPT ![pollEffect] = @ - 1]
    /\ pollEffect' = NoClass
    /\ dev' = "none"
    /\ UNCHANGED <<chatVars, ev, urlVars, docStatus, docFetches, deletingDocId, deletes,
                   settled, classVars, appVars>>

FetchOutcomes == {"ok", "error", "network"}

RegistryNext ==
    \/ \E c \in Classes \cup {NoClass} : RegistrySelectionChanges(c)
    \/ RegistryRefreshTriggered
    \/ \E f \in docFetches, outcome \in FetchOutcomes : DocFetchResponse(f, outcome)
    \/ \E c \in Classes : PollTick(c)
    \/ \E d \in Docs, confirmed \in BOOLEAN : HandleDeleteDocument(d, confirmed)
    \/ \E r \in deletes, outcome \in FetchOutcomes : DeleteResponse(r, outcome)
    \/ \E d \in Docs, st \in {"processed", "failed"} : BackendProgress(d, st)
    \/ Unmount

SpecRegistry == Init /\ [][RegistryNext]_vars

\* polling with the selection fixed once made, the component mounted, no
\* refresh trigger and no delete; timers, responses and the backend are fair
PollNext ==
    \/ RegistrySelectionChanges("c1")
    \/ \E f \in docFetches, outcome \in FetchOutcomes : DocFetchResponse(f, outcome)
    \/ PollTick("c1")
    \/ \E d \in Docs, st \in {"processed", "failed"} : BackendProgress(d, st)
    \/ \E d \in LateDocs :
          BackendAddsDocument(d) /\ UNCHANGED <<urlVars, pollVars, regVars, classVars, appVars>>

SpecPoll ==
    /\ Init
    /\ [][PollNext]_vars
    /\ WF_vars(PollTick("c1"))
    /\ WF_vars(\E f \in docFetches, outcome \in FetchOutcomes : DocFetchResponse(f, outcome))
    /\ WF_vars(\E d \in Docs : BackendProgress(d, "processed"))


\* ---------------------------------------------------------- ClassRegistry
\* the state of the other components
notClassState == <<refreshCount, serverDocs, chatOnly, urlVars, pollVars, regVars,
                   appVars>>

\* the name typed into the create-class dialog
CLASS_NAME == <<" ", "c", "2">>

ClassNames == {BLANKS, CLASS_NAME}

Range(f) ==
    {f[i] : i \in DOMAIN f}

\* a request of refreshClasses in flight: the selection of its closure, and the
\* list the backend read for it
ClassFetch(sel, data) ==
    [capSel |-> sel, data |-> data, then |-> NoDelete]

\* refreshClasses() of a render whose credential is tok and selection sel, up to
\* its await
RefreshClasses(tok, sel, listing) ==
    IF ~tok
    THEN UNCHANGED classFetches
    ELSE /\ Cardinality(classFetches) < MaxClassFetches
         /\ classFetches' = classFetches \cup {ClassFetch(sel, listing)}

\* the effect on [token]: a new credential lists the classes, none clears them
Login ==
    /\ ~token
    /\ token' = TRUE
    /\ RefreshClasses(TRUE, selectedClass, serverClasses)
    /\ cev' = "none"
    /\ UNCHANGED <<selectedClass, classes, serverClasses, creates, delVars,
                   notClassState>>

Logout ==
    /\ token
    /\ token' = FALSE
    /\ classes' = <<>>
    /\ selectedClass' = NoClass
    /\ cev' = "none"
    /\ UNCHANGED <<serverClasses, classFetches, creates, delVars, notClassState>>

ClassesAfterClearingOnFailure(f, outcome) ==
    IF outcome = "ok" THEN f.data ELSE <<>>

ClassesAfterKeepingOnError(f, outcome) ==
    IF outcome = "ok" THEN f.data ELSE classes

\* setClasses of refreshClasses, by how its request ended
ClassesAfter(f, outcome) ==
    IF outcome = "ok" THEN f.data
    ELSE IF outcome = "error" THEN <<>>
    ELSE classes

\* setSelectedClass of refreshClasses: `!selectedClass` reads the closure
SelectionAfter(f, outcome) ==
    IF outcome = "ok"
    THEN IF f.capSel = NoClass /\ Len(f.data) > 0 THEN f.data[1] ELSE selectedClass
    ELSE IF outcome = "error" THEN NoClass
    ELSE selectedClass

\* refreshClasses after its await: the response, an error response, or no response
ClassesResponse(f, outcome) ==
    /\ f \in classFetches
    /\ classFetches' = classFetches \ {f}
    /\ classes' = ClassesAfter(f, outcome)
    /\ selectedClass' = SelectionAfter(f, outcome)
    /\ cev' = IF outcome = "ok" THEN "listed"
              ELSE IF outcome = "error" THEN "listError" ELSE "listFailed"
    /\ fallback' = IF f.then = NoDelete THEN fallback
                    ELSE Fallback(f.then, outcome = "ok", f.data)
    /\ UNCHANGED <<token, serverClasses, creates, classDeletes, deletedClasses,
                   notClassState>>

ClassToSelectUnchecked(id, known) ==
    id

\* classes.find(c => c.id === classId), NoClass for undefined
ClassToSelect(id, known) ==
    IF id \in Range(known) THEN id ELSE NoClass

\* selectClass(classId) of a render whose class list is known
SelectClass(id, known) ==
    /\ selectedClass' = IF ClassToSelect(id, known) # NoClass
                        THEN ClassToSelect(id, known) ELSE selectedClass
    /\ cev' = IF ClassToSelect(id, known) # NoClass THEN "selected" ELSE "unknownId"
    /\ UNCHANGED <<token, classes, serverClasses, classFetches, creates, delVars,
                   notClassState>>

\* a POST /api/classes in flight, with the closure of the addClass that sent it
Create(name, tok, sel) ==
    [name |-> name, token |-> tok, capSel |-> sel]

\* handleCreateClass: addClass(newClassName.trim()) for a name that is not blank
HandleCreateClass(name) ==
    /\ token
    /\ IF Trim(name) = <<>>
       THEN /\ cev' = "createSkipped"
            /\ UNCHANGED creates
       ELSE /\ Cardinality(creates) < MaxCreates
            /\ creates' = creates \cup {Create(Trim(name), token, selectedClass)}
            /\ cev' = "createIssued"
    /\ UNCHANGED <<selectedClass, token, classes, serverClasses, classFetches,
                   delVars, notClassState>>

\* the ids the backend has not given to a class yet
FreeClassIds ==
    Classes \ (Range(serverClasses) \cup deletedClasses)

\* how the promise of addClass settles: rejected when fetch rejects, resolved
\* for every response
AddClassSettles(outcome) ==
    IF outcome = "network" THEN "createRejected"
    ELSE IF outcome = "ok" THEN "createDone" ELSE "createResolved"

\* addClass after its await
CreateResponse(r, outcome) ==
    /\ r \in creates
    /\ creates' = creates \ {r}
    /\ IF outcome = "ok"
       THEN /\ FreeClassIds # {}
            /\ serverClasses' = Append(serverClasses, CHOOSE id \in FreeClassIds : TRUE)
            /\ RefreshClasses(r.token, r.capSel, serverClasses')
       ELSE UNCHANGED <<serverClasses, classFetches>>
    /\ cev' = AddClassSettles(outcome)
    /\ UNCHANGED <<selectedClass, token, classes, delVars, notClassState>>

\* the delete button of a listed class, and its confirm dialog
HandleDeleteClass(id, confirmed) ==
    /\ token
    /\ id \in Range(classes)
    /\ IF confirmed
       THEN /\ Cardinality(classDeletes) + Cardinality(deletedClasses) < MaxClassDeletes
            /\ classDeletes' =
                   classDeletes \cup {DeleteClass(id, selectedClass, classes, token)}
            /\ cev' = "deleteIssued"
       ELSE /\ cev' = "deleteDeclined"
            /\ UNCHANGED classDeletes
    /\ UNCHANGED <<selectedClass, token, classes, serverClasses, classFetches,
                   creates, deletedClasses, fallback, notClassState>>

\* classes.filter(c => c.id !== classId)
Without(known, id) ==
    SelectSeq(known, LAMBDA c : c # id)

\* deleteClass after its first await, up to the await inside refreshClasses: a
\* rejected fetch rejects deleteClass, any response goes on to refreshClasses
DeleteClassResponse(r, outcome) ==
    /\ r \in classDeletes
    /\ classDeletes' = classDeletes \ {r}
    /\ IF outcome = "ok"
       THEN /\ serverClasses' = Without(serverClasses, r.id)
            /\ deletedClasses' = deletedClasses \cup {r.id}
       ELSE UNCHANGED <<serverClasses, deletedClasses>>
    /\ IF outcome = "network"
       THEN /\ cev' = "deleteRejected"
            /\ UNCHANGED <<classFetches, fallback>>
       ELSE /\ cev' = "deleteAnswered"
            /\ IF r.token
               THEN /\ Cardinality(classFetches) < MaxClassFetches
                    /\ classFetches' = classFetches \cup
                          {[ClassFetch(r.capSel, serverClasses') EXCEPT !.then = r]}
                    /\ UNCHANGED fallback
               ELSE /\ fallback' = Fallback(r, FALSE, <<>>)
                    /\ UNCHANGED classFetches
    /\ UNCHANGED <<selectedClass, token, classes, creates, notClassState>>

\* remainingClasses[0] || null, of the class list of deleteClass's closure
RemainingClass(del) ==
    IF Len(Without(del.capClasses, del.id)) > 0
    THEN Without(del.capClasses, del.id)[1] ELSE NoClass

\* deleteClass after `await refreshClasses()`
DeleteClassCompletes ==
    /\ fallback # NoFallback
    /\ selectedClass' = IF fallback.del.capSel = fallback.del.id
                        THEN RemainingClass(fallback.del) ELSE selectedClass
    /\ fallback' = NoFallback
    /\ cev' = "deleteDone"
    /\ UNCHANGED <<token, classes, serverClasses, classFetches, creates, classDeletes,
                   deletedClasses, notClassState>>

\* deleteClass resumes in the microtask after refreshClasses returns, before any
\* other event is handled
Resumed ==
    fallback = NoFallback

ClassNext ==
    \/ Resumed /\ Login
    \/ Resumed /\ Logout
    \/ Resumed /\ \E f \in classFetches, outcome \in FetchOutcomes :
                      ClassesResponse(f, outcome)
    \/ Resumed /\ \E id \in Classes : SelectClass(id, classes)
    \/ Resumed /\ \E name \in ClassNames : HandleCreateClass(name)
    \/ Resumed /\ \E r \in creates, outcome \in FetchOutcomes : CreateResponse(r, outcome)
    \/ Resumed /\ \E id \in Classes, confirmed \in BOOLEAN :
                      HandleDeleteClass(id, confirmed)
    \/ Resumed /\ \E r \in classDeletes, outcome \in FetchOutcomes :
                      DeleteClassResponse(r, outcome)
    \/ DeleteClassCompletes

SpecClasses == Init /\ [][ClassNext]_vars


\* ------------------------------------------------------ Upload and RefreshBus
\* the file offered to the file input
FILE == "f1"

\* a POST /api/upload in flight, with the selection of the handleUpload that
\* sent it; left: the Upload page that sent it has been unmounted since
Upload(c) ==
    [class |-> c, left |-> FALSE]

\* the documents the backend takes in with an upload to class c
UploadedDocs(c) ==
    {d \in LateDocs : DocClass(d) = c}

\* handleFileChange and handleDrop
ChooseFiles ==
    /\ files' = files \cup {FILE}
    /\ uev' = "none"
    /\ UNCHANGED <<isUploading, uploads>>

RemoveFile(f) ==
    /\ f \in files
    /\ files' = files \ {f}
    /\ uev' = "none"
    /\ UNCHANGED <<isUploading, uploads>>

\* the user leaves the Upload page for Chat and comes back: the page is
\* unmounted and mounted anew with its initial state, its requests stay in
\* flight. (One departure with a request pending is followed.)
ReopenUploadPage ==
    /\ \A r \in uploads : ~r.left
    /\ files' = {}
    /\ isUploading' = FALSE
    /\ uploads' = {[r EXCEPT !.left = TRUE] : r \in uploads}
    /\ uev' = "reopened"

\* handleUpload up to its await
HandleUpload ==
    /\ IF selectedClass = NoClass \/ files = {} \/ isUploading
       THEN /\ uev' = "skipped"
            /\ UNCHANGED <<isUploading, uploads>>
       ELSE /\ isUploading' = TRUE
            /\ uploads' = uploads \cup {Upload(selectedClass)}
            /\ uev' = "issued"
    /\ UNCHANGED files

RegistryEffectsOnSelectionOnly(c, sdocs) ==
    IF c # NoClass /\ c # selectedClass
    THEN /\ Cardinality(docFetches) < MaxDocFetches
         /\ docFetches' = docFetches \cup {DocFetch(c, ListStatus(sdocs, c))}
         /\ PollEffect(c, documents)
         /\ UNCHANGED urlVars
    ELSE IF c # selectedClass THEN RefreshDocuments(c, sdocs)
    ELSE UNCHANGED <<docFetches, urlVars, pollVars>>

\* the effects of ClassSelector after a render in which the selection (now c),
\* the refresh counter, or both have changed: refreshDocuments (lines 54-57),
\* and for a new selection the polling effect (lines 59-69)
RegistryEffects(c, sdocs) ==
    IF c # NoClass /\ c # selectedClass
    THEN /\ Cardinality(docFetches) < MaxDocFetches
         /\ docFetches' = docFetches \cup {DocFetch(c, ListStatus(sdocs, c))}
         /\ PollEffect(c, documents)
         /\ UNCHANGED urlVars
    ELSE RefreshDocuments(c, sdocs)

\* the selection changes to c, or the refresh counter to n: the effects of Chat
\* and of ClassSelector that depend on them run
Resynchronize(c, n, sdocs) ==
    /\ mounted
    /\ c # NoClass => FetchesInFlight < MaxMapFetches
    /\ selectedClass' = c
    /\ refreshCount' = n
    /\ ChatResetEffect(c)
    /\ RegistryEffects(c, sdocs)
    /\ ev' = NoEvent
    /\ settled' = FALSE
    /\ dev' = "none"
    /\ UNCHANGED <<inputValue, subs, nSubmits, docStatus, deletingDocId, deletes,
                   mounted, classVars, userVars>>

\* the user selects another class, or the selection is cleared
BusSelects(c) ==
    /\ c # selectedClass
    /\ Resynchronize(c, refreshCount, serverDocs)
    /\ uev' = "none"
    /\ UNCHANGED <<serverDocs, files, isUploading, uploads>>

\* RefreshBus: the counter after triggerRefresh()
Raised(n) ==
    n + 1

\* handleUpload after its await. found: the class list of its render, which is
\* ClassContext's, holds the class of that render
UploadResponse(r, outcome, found) ==
    /\ r \in uploads
    /\ uploads' = uploads \ {r}
    /\ isUploading' = IF r.left THEN isUploading ELSE FALSE
    /\ IF outcome = "ok"
       THEN /\ refreshCount < MaxRefresh
            /\ serverDocs' = serverDocs \cup UploadedDocs(r.class)
            /\ files' = IF r.left THEN files ELSE {}
            /\ Resynchronize(IF found THEN r.class ELSE selectedClass,
                             Raised(refreshCount), serverDocs')
            /\ uev' = "uploaded"
       ELSE /\ uev' = "alerted"
            /\ UNCHANGED <<files, chatVars, ev, urlVars, pollVars, regVars, classVars,
                           userVars>>

\* how POST /api/upload can end: as any fetch, or with an error response whose
\* body is not JSON, on which `await res.json()` throws into the catch block
UploadOutcomes == FetchOutcomes \cup {"badjson"}

\* the selections made, and the document whose delete button is used
BusClasses == {"c1", NoClass}

BusDocs == {"d1"}

BusNext ==
    \/ \E c \in BusClasses : BusSelects(c)
    \/ ChooseFiles /\ UNCHANGED <<chatVars, ev, urlVars, pollVars, regVars, classVars, userVars>>
    \/ \E f \in files :
          RemoveFile(f) /\ UNCHANGED <<chatVars, ev, urlVars, pollVars, regVars, classVars, userVars>>
    \/ HandleUpload /\ UNCHANGED <<chatVars, ev, urlVars, pollVars, regVars, classVars, userVars>>
    \/ ReopenUploadPage /\ UNCHANGED <<chatVars, ev, urlVars, pollVars, regVars, classVars, userVars>>
    \/ \E r \in uploads, outcome \in UploadOutcomes, found \in BOOLEAN :
          UploadResponse(r, outcome, found)
    \/ \E c \in Classes, ok \in BOOLEAN :
          MapFetchResponse(c, ok) /\ UNCHANGED <<urlVars, pollVars, regVars, classVars, appVars>>
    \/ \E f \in docFetches, outcome \in FetchOutcomes : DocFetchResponse(f, outcome)
    \/ \E d \in BusDocs : HandleDeleteDocument(d, TRUE)
    \/ \E r \in deletes, outcome \in FetchOutcomes : DeleteResponse(r, outcome)

SpecBus == Init /\ [][BusNext]_vars


\* ------------------------------------------------------------- UserContext
\* a login or register call in flight: pc is "auth" while it awaits the
\* credential, "me" while it awaits the profile
Auth(kind, pc) ==
    [kind |-> kind, pc |-> pc]

\* the fetchUser effect on [token], run for a render whose credential is tok
FetchUser(tok) ==
    IF tok
    THEN /\ sessionChecks < MaxAuth
         /\ sessionChecks' = sessionChecks + 1
    ELSE UNCHANGED sessionChecks

\* login(email, password) or register(email, password) up to its first await;
\* the pages that call them are shown while no user is held, and the login
\* button is disabled while isLoading
BeginAuth(kind) ==
    /\ ~user
    /\ kind = "login" => ~isLoading
    /\ Cardinality(auths) < MaxAuth
    /\ isLoading' = TRUE
    /\ auths' = auths \cup {Auth(kind, "auth")}
    /\ aev' = "authBegun"
    /\ UNCHANGED <<user, token, storedToken, heldToken, sessionChecks>>

AuthResponseWithoutFinally(r, outcome) ==
    /\ r \in auths
    /\ r.pc = "auth"
    /\ IF outcome = "ok"
       THEN /\ \E t \in Tokens : storedToken' = t /\ heldToken' = t
            /\ token' = TRUE
            /\ FetchUser(TRUE)
            /\ auths' = (auths \ {r}) \cup {Auth(r.kind, "me")}
            /\ aev' = "credentialStored"
       ELSE /\ auths' = auths \ {r}
            /\ aev' = "authThrown"
            /\ UNCHANGED <<token, storedToken, heldToken, sessionChecks>>
    /\ UNCHANGED <<user, isLoading>>

\* the credential request of login or register completes: a success response
\* stores the credential and goes on to GET /auth/me, anything else throws
AuthResponse(r, outcome) ==
    /\ r \in auths
    /\ r.pc = "auth"
    /\ IF outcome = "ok"
       THEN /\ \E t \in Tokens : storedToken' = t /\ heldToken' = t
            /\ token' = TRUE
            /\ FetchUser(TRUE)
            /\ auths' = (auths \ {r}) \cup {Auth(r.kind, "me")}
            /\ aev' = "credentialStored"
            /\ UNCHANGED isLoading
       ELSE /\ auths' = auths \ {r}
            /\ isLoading' = FALSE
            /\ aev' = "authThrown"
            /\ UNCHANGED <<token, storedToken, heldToken, sessionChecks>>
    /\ UNCHANGED user

\* the profile request of login or register completes: every response is taken
\* for the profile, a rejected fetch throws
MeResponse(r, outcome) ==
    /\ r \in auths
    /\ r.pc = "me"
    /\ auths' = auths \ {r}
    /\ user' = IF outcome = "network" THEN user ELSE TRUE
    /\ isLoading' = FALSE
    /\ aev' = IF outcome = "network" THEN "authThrown" ELSE "authDone"
    /\ UNCHANGED <<token, storedToken, heldToken, sessionChecks>>

LogoutUserKeepingStorage ==
    /\ user
    /\ user' = FALSE
    /\ token' = FALSE
    /\ heldToken' = NoToken
    /\ aev' = "loggedOut"
    /\ UNCHANGED <<storedToken, isLoading, auths, sessionChecks>>

\* logout(), from the navigation bar of a held user
LogoutUser ==
    /\ user
    /\ user' = FALSE
    /\ token' = FALSE
    /\ heldToken' = NoToken
    /\ storedToken' = NoToken
    /\ aev' = "loggedOut"
    /\ UNCHANGED <<isLoading, auths, sessionChecks>>

SessionCheckClearsOnAnyFailure(outcome) ==
    outcome # "ok"

\* fetchUser takes its else branch for a response that is not ok
SessionCheckClears(outcome) ==
    outcome = "error"

\* fetchUser after its await
FetchUserResponse(outcome) ==
    /\ sessionChecks > 0
    /\ sessionChecks' = sessionChecks - 1
    /\ IF SessionCheckClears(outcome)
       THEN /\ user' = FALSE
            /\ token' = FALSE
            /\ heldToken' = NoToken
            /\ storedToken' = NoToken
            /\ aev' = IF token /\ storedToken # NoToken THEN "credentialDiscarded"
                      ELSE "sessionRejected"
       ELSE /\ user' = IF outcome = "ok" THEN TRUE ELSE user
            /\ aev' = IF outcome = "ok" THEN "sessionChecked"
                      ELSE IF token /\ storedToken # NoToken THEN "credentialKept"
                      ELSE "sessionUnchecked"
            /\ UNCHANGED <<token, storedToken, heldToken>>
    /\ UNCHANGED <<isLoading, auths>>

\* everything but the credential store
notUserState == <<chatVars, ev, urlVars, pollVars, regVars, classes, serverClasses,
                  classFetches, creates, cev, delVars, uploadVars>>

AuthKinds == {"login", "register"}

UserNext ==
    \/ \E kind \in AuthKinds : BeginAuth(kind) /\ UNCHANGED notUserState
    \/ \E r \in auths, outcome \in FetchOutcomes :
          AuthResponse(r, outcome) /\ UNCHANGED notUserState
    \/ \E r \in auths, outcome \in FetchOutcomes :
          MeResponse(r, outcome) /\ UNCHANGED notUserState
    \/ LogoutUser /\ UNCHANGED notUserState
    \/ \E outcome \in FetchOutcomes : FetchUserResponse(outcome) /\ UNCHANGED notUserState

SpecUser == Init /\ [][UserNext]_vars

\* the two callers of rate-limited endpoints side by side: the submits of one
\* class, and login attempts
RetryNext ==
    \/ SelectedClassChanges("c1") /\ UNCHANGED <<urlVars, pollVars, regVars, classVars, appVars>>
    \/ \E ok \in BOOLEAN : MapFetchResponse("c1", ok) /\ UNCHANGED <<urlVars, pollVars, regVars, classVars, appVars>>
    \/ SetInput(QUESTION) /\ UNCHANGED <<urlVars, pollVars, regVars, classVars, appVars>>
    \/ HandleSubmit(MaxSubmits) /\ UNCHANGED <<urlVars, pollVars, regVars, classVars, appVars>>
    \/ \E s \in 1..MaxSubmits :
          QueryResponse(s, ChatAnswers, {1}, MaxChatChunks) /\ UNCHANGED <<urlVars, pollVars, regVars, classVars, appVars>>
    \/ \E s \in 1..MaxSubmits, ok \in BOOLEAN :
          RefreshResponse(s, ok) /\ UNCHANGED <<urlVars, pollVars, regVars, classVars, appVars>>
    \/ BeginAuth("login") /\ UNCHANGED notUserState
    \/ \E r \in auths, outcome \in FetchOutcomes :
          AuthResponse(r, outcome) /\ UNCHANGED notUserState
    \/ \E r \in auths, outcome \in FetchOutcomes :
          MeResponse(r, outcome) /\ UNCHANGED notUserState

SpecRetry == Init /\ [][RetryNext]_vars


\* ------------------------------------------------------------------ claims
LastMessage ==
    messages[Len(messages)]

AnswerCompleted ==
    ev.op = "completion" /\ ev.kind \in {"answer", "answerRefreshed", "answerRefreshFailed"}

\* C1: the citations attached to an answer hold exactly one entry per distinct
\* (filename, page_number) pair among the chunks whose document id resolves in
\* the map the handler reads, in the order of each pair's first occurrence.
C1_CitationsDedupFirstSeen ==
    AnswerCompleted =>
        LET chunks == ev.data.chunks
            cits == LastMessage.citations.list
            Resolved == {i \in 1..Len(chunks) : Known(ev.capMap, chunks[i].document_id)}
            Pair(i) == <<ev.capMap[chunks[i].document_id], chunks[i].page_number>>
            CitPair(j) == <<cits[j].filename, cits[j].page_number>>
            First(p) == CHOOSE i \in Resolved :
                            Pair(i) = p /\ \A k \in Resolved : Pair(k) = p => i <= k
        IN  /\ LastMessage.citations.present
            /\ Len(cits) = Cardinality({Pair(i) : i \in Resolved})
            /\ {CitPair(j) : j \in 1..Len(cits)} = {Pair(i) : i \in Resolved}
            /\ \A j, k \in 1..Len(cits) : j < k => First(CitPair(j)) < First(CitPair(k))

C1_Witness ==
    /\ AnswerCompleted
    /\ Len(ev.data.chunks) = 3
    /\ ev.data.chunks[1].document_id = "d1"
    /\ ev.data.chunks[2].document_id = "d2"
    /\ ev.data.chunks[2].page_number = ev.data.chunks[1].page_number
    /\ ev.data.chunks[3] = ev.data.chunks[1]
    /\ Len(LastMessage.citations.list) = 1

\* C2: a chunk whose document id is absent from the map when the answer arrives and
\* present in the list the forced refresh returns is cited with the refreshed
\* filename.
C2_RefreshedIdIsCited ==
    (ev.op = "completion" /\ ev.kind = "answerRefreshed") =>
        \A i \in 1..Len(ev.data.chunks) :
            LET d == ev.data.chunks[i].document_id
            IN  (~Known(ev.liveMap, d) /\ Known(docIdToFilename, d)) =>
                    \E j \in 1..Len(LastMessage.citations.list) :
                        LET c == LastMessage.citations.list[j]
                        IN  /\ c.filename = docIdToFilename[d]
                            /\ c.page_number = ev.data.chunks[i].page_number

\* C3: a refresh fetch is issued for an answer exactly when a chunk's document id
\* is absent from the current map (the state's map when the answer arrives), and
\* an answer is finished without a refresh only when every chunk id is present.
C3_RefreshIffAbsentFromCurrentMap ==
    /\ \A s \in DOMAIN subs :
          subs[s].pc = "refresh" =>
              HasUnknownDocuments(subs[s].data.chunks, subs[s].liveMap)
    /\ (ev.op = "completion" /\ ev.kind = "answer") =>
          ~HasUnknownDocuments(ev.data.chunks, ev.liveMap)

\* C4: no citation attached to a transcript message carries the placeholder for
\* unknown documents; its filename is the map's filename of its document.
C4_NoUnresolvedCitation ==
    \A i \in 1..Len(messages) :
        \A j \in 1..Len(messages[i].citations.list) :
            LET c == messages[i].citations.list[j]
            IN  /\ c.filename # UNKNOWN_DOCUMENT
                /\ c.filename = DocFilename(c.document_id)

C4_Witness ==
    /\ AnswerCompleted
    /\ HasUnknownDocuments(ev.data.chunks, ev.capMap)
    /\ Len(LastMessage.citations.list) > 0
    /\ Len(LastMessage.citations.list) < Len(ev.data.chunks)

\* C5: an assistant message whose text, trimmed and lower-cased, is
\* "i don't know." shows no sources, whatever citations are attached to it.
C5_IdkShowsNoSources ==
    \A i \in 1..Len(messages) :
        (~messages[i].isUser /\ ToLowerCase(Trim(messages[i].text)) = IDK_TEXT) =>
            RenderedSources(messages[i]) = <<>>

C5_Witness ==
    \E i \in 1..Len(messages) :
        /\ messages[i].text = ANSWER_IDK_PADDED
        /\ Len(messages[i].citations.list) > 0

\* C6: a submit with empty or whitespace-only text, or with no class selected,
\* leaves the transcript unchanged and issues no query request.
C6_RejectedSubmitChangesNothing ==
    [][((Trim(inputValue) = <<>> \/ selectedClass = NoClass) /\ HandleSubmit(MaxSubmits))
          => UNCHANGED <<messages, subs, nSubmits>>]_vars

C6_Witness ==
    /\ ev.op = "submitRejected"
    /\ inputValue = BLANKS
    /\ selectedClass # NoClass

ErrorDetails(kind) ==
    CASE kind = "network" -> {NETWORK_MSG}
      [] kind = "badjson" -> {INVALID_JSON_MSG}
      [] kind = "error"   -> {DETAIL_RATE, UNKNOWN_ERROR_MSG}
      [] OTHER            -> {}

\* C7: every step that completes a submit appends exactly one assistant message
\* of that submit, and after a failed, unparsable or non-success response that
\* message describes the error.
C7_CompletionAppendsOneMessage ==
    [][\A s \in DOMAIN subs :
          (subs[s].pc \in {"query", "refresh"} /\ subs'[s].pc = "done") =>
              /\ Len(messages') = Len(messages) + 1
              /\ IsPrefix(messages, messages')
              /\ ~messages'[Len(messages')].isUser
              /\ messages'[Len(messages')].sid = s
              /\ ev'.kind \in {"network", "badjson", "error"} =>
                    messages'[Len(messages')].text \in
                        {ERROR_PREFIX \o DETAILS_PREFIX \o d : d \in ErrorDetails(ev'.kind)}]_vars

C7_Witness ==
    /\ ev.op = "completion"
    /\ ev.kind = "error"
    /\ LastMessage.text = ERROR_PREFIX \o DETAILS_PREFIX \o DETAIL_RATE
    /\ \E s \in DOMAIN subs : subs[s].pc = "query"

TranscriptOrdered ==
    \A i, j \in 1..Len(messages) :
        i < j =>
            /\ (messages[i].isUser /\ messages[j].isUser) =>
                  messages[i].sid < messages[j].sid
            /\ (messages[i].sid = messages[j].sid /\ messages[i].sid # 0) =>
                  (messages[i].isUser /\ ~messages[j].isUser)

\* C8: between two transcript resets every step leaves the transcript a prefix of
\* the new one, user messages stand in the order of their submits, and a submit's
\* assistant message stands after its user message.
C8_TranscriptAppendOnly ==
    /\ [][\/ \E c \in Classes \cup {NoClass} : SelectedClassChanges(c)
          \/ TriggerRefresh
          \/ IsPrefix(messages, messages')]_vars
    /\ []TranscriptOrdered

C8_Witness ==
    /\ Len(messages) = 5
    /\ messages[2].isUser /\ messages[3].isUser
    /\ messages[4].sid = 2
    /\ messages[5].sid = 1

\* C9: a step that leaves the selected class unchanged leaves every transcript
\* message in place.
C9_ResetOnlyOnClassChange ==
    [][selectedClass' = selectedClass => IsPrefix(messages, messages')]_vars

\* the entries of the cache: the ids that hold both a URL and an expiry
CacheEntries ==
    DOMAIN presignedUrls \cap DOMAIN urlCacheExpiry

\* C10 (as stated): getUrl never returns a cached presigned URL at or after
\* T + TTL, where T is the time the batch request that fetched the URL was
\* issued: every stored expiry is at most T + TTL, and a getUrl call at or
\* after the stored expiry issues a new batch request instead of returning
\* the cached value.
C10_ExpiryWithinTtlOfIssue ==
    /\ \A d \in CacheEntries :
          urlCacheExpiry[d] <= presignedUrls[d].issued + CACHE_TTL
    /\ lastGet.kind = "cached" =>
          /\ lastGet.at < lastGet.url.issued + CACHE_TTL
          /\ lastGet.at < lastGet.expiry
    /\ (lastGet.kind \in {"cached", "requested"} /\ lastGet.at >= lastGet.expiry) =>
          lastGet.kind = "requested"

\* C10 (amended): the same with T the time the response that carried the URL
\* was handled: every stored expiry is at most T + TTL, getUrl never returns a
\* cached URL at or after T + TTL, and a getUrl call at or after the stored
\* expiry issues a new batch request instead of returning the cached value.
C10_ExpiryWithinTtlOfReceipt ==
    /\ \A d \in CacheEntries :
          urlCacheExpiry[d] <= presignedUrls[d].received + CACHE_TTL
    /\ lastGet.kind = "cached" =>
          /\ lastGet.at < lastGet.url.received + CACHE_TTL
          /\ lastGet.at < lastGet.expiry
    /\ (lastGet.kind \in {"cached", "requested"} /\ lastGet.at >= lastGet.expiry) =>
          lastGet.kind = "requested"

\* getUrl is called for a cached URL exactly when its stored expiry is reached
\* and issues a new batch request
C10_Witness ==
    /\ lastGet.kind = "requested"
    /\ lastGet.doc \in CacheEntries
    /\ lastGet.expiry > 0
    /\ lastGet.at = lastGet.expiry
    /\ \E b \in batches : b.kind = "get" /\ b.doc = lastGet.doc /\ b.issued = lastGet.at

ArmedTimers ==
    timers["c1"] + timers["c2"]

C12_DeleteCompletionReleasesGuard ==
    [][\A r \in deletes, outcome \in FetchOutcomes :
         (mounted /\ DeleteResponse(r, outcome))
             => /\ deletingDocId' = NoDoc
                /\ \/ r.class = NoClass
                   \/ DocFetch(r.class, ListStatus(serverDocs', r.class)) \in docFetches']_vars

\* C13: a poll timer is armed only while the local list holds a
\* document whose status is not 'processed', and once a fetch returned a list
\* in which every document is 'processed' no poll fetch fires until the class
\* changes or a refresh is triggered.
C13_NoPollAfterAllProcessed ==
    /\ [](\A c \in Classes :
            timers[c] > 0 => \E d \in DOMAIN documents : documents[d] # "processed")
    /\ [][settled => ~ \E c \in Classes : PollTick(c)]_vars

\* what holds of polling whatever the order of the responses: a poll timer is
\* armed only while the local list holds a document whose status is not
\* 'processed'; a fetch that returns a list in which every document is
\* 'processed' leaves no timer armed, and a poll fetch fires only while the
\* local list holds a document that is not 'processed'
PollOnlyWhilePendingListed ==
    /\ [](\A c \in Classes :
            timers[c] > 0 => \E d \in DOMAIN documents : documents[d] # "processed")
    /\ [][\A f \in docFetches :
            (mounted /\ AllProcessed(f.data) /\ DocFetchResponse(f, "ok"))
                => ArmedTimers' = 0]_vars
    /\ [][\A c \in Classes :
            PollTick(c) => \E d \in DOMAIN documents : documents[d] # "processed"]_vars

\* C14: at most one poll timer is armed at any time, it belongs to the selected
\* class of the mounted component, and no poll tick issues a fetch for a class
\* that is not selected.
C14_TimerFollowsSelection ==
    /\ [](ArmedTimers <= 1)
    /\ [](\A c \in Classes : timers[c] > 0 => (mounted /\ c = selectedClass))
    /\ [][\A c \in Classes : PollTick(c) => c = selectedClass]_vars

\* the selection moved to c2 while documents were pending: the only timer is c2's
C14_Witness ==
    /\ selectedClass = "c2"
    /\ timers["c1"] = 0
    /\ timers["c2"] = 1
    /\ HasPending(documents)

\* the backend reports every document of c1 as processed
BackendAllProcessed ==
    AllProcessed(ListStatus(serverDocs, "c1"))

\* the local list shows every document of c1, all processed
LocalAllProcessed ==
    /\ documents = ListStatus(serverDocs, "c1")
    /\ AllProcessed(documents)

\* C15: with c1 selected for good and timers and responses fair, if every
\* document of c1 ends up processed on the backend and stays so, the local list
\* eventually shows every one of them as processed, also when a fetch after the
\* first listing fails (the first fetch is taken to have listed the documents).
C15_EventuallyProcessed ==
    ((<>[](selectedClass = "c1" /\ BackendAllProcessed)) /\ <>(DOMAIN documents # {}))
        => <>LocalAllProcessed

\* C16: the completion of fetchDocuments replaces the local list as a whole: a
\* successful response makes it exactly the returned list, a network failure
\* or an error response makes it empty.
C16_FetchReplacesList ==
    [][\A f \in docFetches, outcome \in FetchOutcomes :
         (mounted /\ DocFetchResponse(f, outcome))
             => documents' = (IF outcome = "ok" THEN f.data ELSE EmptyMap)]_vars

\* after a delete, the fetched list replaced a list that held the deleted document
C16_Witness ==
    /\ dev = "fetched"
    /\ "d1" \notin serverDocs
    /\ documents = ListStatus(serverDocs, "c1")
    /\ DOMAIN documents # {}

\* C17: a listClasses request that fails at the network level leaves the local
\* class set and the selection as they were.
C17_NetworkFailureKeepsClasses ==
    [][\A f \in classFetches :
         ClassesResponse(f, "network") => UNCHANGED <<classes, selectedClass>>]_vars

\* a listing failed while classes were listed and one was selected
C17_Witness ==
    /\ cev = "listFailed"
    /\ classes # <<>>
    /\ selectedClass \in Range(classes)

C19_CreateFailureReported ==
    [][\A r \in creates :
         /\ \A outcome \in {"error", "network"} :
               CreateResponse(r, outcome)
                   => /\ UNCHANGED <<classes, selectedClass, classFetches>>
                      /\ cev' = "createRejected"
         /\ CreateResponse(r, "ok")
               => /\ ClassFetch(r.capSel, serverClasses') \in classFetches'
                  /\ Cardinality(classFetches' \ classFetches) <= 1]_vars

C21_DeleteFallsBackToRefetchedListing ==
    [][DeleteClassCompletes /\ fallback.del.id \in deletedClasses =>
         IF fallback.del.capSel = fallback.del.id
         THEN fallback.listed =>
                 selectedClass' = IF Len(fallback.data) > 0
                                  THEN fallback.data[1] ELSE NoClass
         ELSE selectedClass' = selectedClass]_vars

\* C22: a listing with a non-empty list, applied while no class is selected,
\* selects the first class of the list; applied while a class is selected, it
\* leaves the selection alone.
C22_AutoSelectOnlyWhenNoneSelected ==
    [][\A f \in classFetches :
          ClassesResponse(f, "ok") /\ Len(f.data) > 0 =>
             selectedClass' = IF selectedClass = NoClass
                              THEN f.data[1] ELSE selectedClass]_vars

\* C23: every successful upload and every completed document delete raises the
\* refresh counter by one, and no step lowers the counter.
C23_MutationsRaiseRefreshCounter ==
    [][/\ \A r \in uploads, found \in BOOLEAN :
             UploadResponse(r, "ok", found) => refreshCount' = refreshCount + 1
       /\ \A r \in deletes, outcome \in {"ok", "error"} :
             DeleteResponse(r, outcome) => refreshCount' = refreshCount + 1
       /\ refreshCount' >= refreshCount]_vars

\* C24: a step that raises the refresh counter while a class is selected puts a
\* document-list request of ClassSelector for that class in flight and one of
\* Chat; a successful completion of the former makes the local document list
\* the list the backend read for it, and a successful completion of the latter
\* makes the id-to-filename map the map of the backend's list for that class.
C24_IncrementRefetchesBoth ==
    [][/\ (refreshCount' # refreshCount /\ selectedClass' # NoClass) =>
             /\ DocFetch(selectedClass', ListStatus(serverDocs', selectedClass'))
                   \in docFetches'
             /\ mapFetches'[selectedClass'] = mapFetches[selectedClass'] + 1
       /\ \A f \in docFetches :
             DocFetchResponse(f, "ok") => documents' = f.data
       /\ \A c \in Classes :
             (MapFetchResponse(c, TRUE) /\ UNCHANGED documents) =>
                docIdToFilename' = MapOfDocs(ListDocuments(c))]_vars

\* the upload of d9 has raised the counter, both requests have completed, and
\* the list and the map both hold d9
C24_Witness ==
    /\ refreshCount = 1
    /\ selectedClass = "c1"
    /\ docFetches = {}
    /\ FetchesInFlight = 0
    /\ "d9" \in DOMAIN documents
    /\ "d9" \in DOMAIN docIdToFilename
    /\ documents = ListStatus(serverDocs, "c1")
    /\ docIdToFilename = MapOfDocs(ListDocuments("c1"))

\* C25: a session check answered by a non-success response leaves no
\* credential in memory, none in local storage and no user; one that fails on
\* the network leaves the credential as it was in both places.
C25_SessionCheckFailure ==
    [][/\ FetchUserResponse("error") =>
             ~token' /\ heldToken' = NoToken /\ storedToken' = NoToken /\ ~user'
       /\ FetchUserResponse("network") =>
             UNCHANGED <<token, heldToken, storedToken>>]_vars

\* a session check on a held and stored credential was answered by an error response
C25_Witness ==
    /\ aev = "credentialDiscarded"
    /\ ~token
    /\ storedToken = NoToken

\* C26: the ids of the messages of the transcript increase strictly along the
\* transcript, so that no two messages share an id.
C26_MessageIdsIncrease ==
    \A i, j \in DOMAIN messages :
       i < j => messages[i].id < messages[j].id

C28_HitAndFailedMissLeaveCache ==
    [][/\ \A d \in UrlDocs :
             (/\ GetPresignedUrl(d)
              /\ d \in DOMAIN presignedUrls
              /\ d \in DOMAIN urlCacheExpiry
              /\ now < urlCacheExpiry[d])
                => /\ lastGet'.kind = "cached"
                   /\ lastGet'.url = presignedUrls[d]
                   /\ UNCHANGED <<batches, presignedUrls, urlCacheExpiry>>
       /\ \A b \in batches : \A got \in SUBSET b.ids :
             (BatchResponse(b, got) /\ b.kind = "get" /\ b.doc \notin got)
                => /\ lastGet'.kind = "failed"
                   /\ lastGet'.url = NoUrl
                   /\ UNCHANGED <<presignedUrls, urlCacheExpiry>>]_vars

\* getUrl has returned a cached URL some time after the start and before its expiry
C28_Witness ==
    /\ lastGet.kind = "cached"
    /\ lastGet.url # NoUrl
    /\ 0 < lastGet.at
    /\ lastGet.at < lastGet.expiry

\* C29: every load of a non-empty document list puts one batch request for all
\* ids of the list in flight; when a pre-fetch batch completes, every id it
\* brought a URL for has a cached URL and an expiry entry, and the expiry entry
\* that a getUrl completed since the batch was issued wrote for another id is
\* still there, unchanged.
C29_PrefetchKeepsConcurrentExpiry ==
    [][/\ \A ids \in SUBSET UrlDocs :
             (ids # {} /\ SetDocuments([d \in ids |-> "processed"]))
                => /\ Batch("prefetch", ids, "", urlCacheExpiry) \in batches'
                   /\ Cardinality(batches' \ batches) <= 1
       /\ \A b \in batches : \A got \in SUBSET b.ids :
             (BatchResponse(b, got) /\ b.kind = "prefetch")
                => /\ \A d \in got :
                         d \in DOMAIN presignedUrls' /\ d \in DOMAIN urlCacheExpiry'
                   /\ \A d \in DOMAIN urlCacheExpiry \ got :
                         (/\ lastGet.kind = "fetched"
                          /\ lastGet.doc = d
                          /\ lastGet.at >= b.issued)
                            => /\ d \in DOMAIN urlCacheExpiry'
                               /\ urlCacheExpiry'[d] = urlCacheExpiry[d]]_vars


\* the local list holds a document whose status is not 'processed'
ListShowsUnprocessed ==
    \E d \in DOMAIN documents : documents[d] # "processed"

\* C30: with c1 selected for good, the component mounted and timers and
\* responses fair, whenever the local list holds a document whose status is not
\* 'processed', a document fetch beyond the one that produced the list is
\* eventually in flight: re-arming the timer on every completion does not
\* stall polling.
C30_PollingDoesNotStall ==
    [](  (mounted /\ selectedClass = "c1" /\ ListShowsUnprocessed)
            => <>(docFetches # {}))

\* a document has failed for good, the list shows it, the timer that a fetch
\* completion re-armed has fired and its fetch is in flight
C30_Witness ==
    /\ selectedClass = "c1"
    /\ \E d \in DOMAIN documents : documents[d] = "failed"
    /\ timers["c1"] > 0
    /\ docFetches # {}
    /\ dev = "none"

\* C31: whenever no deleteClass is between refreshClasses and its own
\* setSelectedClass, the selected class is none or one of the local class
\* list, whatever listings, creations, selections and deletions were made and
\* however their requests ended.
C31_SelectedClassIsListed ==
    Resumed => (selectedClass = NoClass \/ selectedClass \in Range(classes))

\* C32: without a credential the class list is empty and no class is selected,
\* also when a listing requested before logout is answered after it.
C32_NoCredentialNoClasses ==
    ~token => (classes = <<>> /\ selectedClass = NoClass)

\* C33: a user profile is held only while a credential is held, whatever the
\* interleaving of login, register, logout and the session check.
C33_UserImpliesToken ==
    user => token

\* C34: in every state between the operations of the credential store the
\* credential in local storage is the credential held in memory: both are none
\* or both are the same value.
C34_StoredTokenIsHeldToken ==
    storedToken = heldToken

\* a login stored a credential other than the one the page was loaded with
C34_Witness ==
    /\ aev = "credentialStored"
    /\ storedToken \in Tokens
    /\ heldToken = storedToken

\* the documents of class c
DocsOfClass(c) ==
    {d \in Docs : DocClass(d) = c}

\* C35: once no document fetch of ClassSelector or of Chat is in flight, the
\* local document list and Chat's id-to-filename map hold only documents of
\* the selected class, and both are empty when no class is selected.
C35_ListsBelongToSelectedClass ==
    (docFetches = {} /\ FetchesInFlight = 0) =>
        /\ DOMAIN documents \subseteq DocsOfClass(selectedClass)
        /\ DOMAIN docIdToFilename \subseteq DocsOfClass(selectedClass)

\* C36: when a query completes whose submit was made under another selection
\* than the present one, the transcript, reset by the class change, gets no
\* message of that submit.
C36_NoMessageOfEarlierClass ==
    [][\A s \in DOMAIN subs :
          (/\ subs[s].pc \in {"query", "refresh"}
           /\ subs'[s].pc = "done"
           /\ subs[s].capClass # selectedClass)
             => \A i \in DOMAIN messages' : messages'[i].sid # s]_vars

\* C37: at most one upload request is in flight; a handleUpload with no class
\* selected, no file chosen or an upload pending sends no request; every
\* completion of an upload request, however it ended, leaves the uploading
\* flag false; and only a successful completion changes the refresh counter.
C37_UploadSerialized ==
    /\ [](Cardinality(uploads) <= 1)
    /\ [][/\ (HandleUpload /\ (selectedClass = NoClass \/ files = {} \/ uploads # {}))
              => uploads' = uploads
          /\ \A r \in uploads, outcome \in UploadOutcomes, found \in BOOLEAN :
                UploadResponse(r, outcome, found) =>
                   /\ ~isUploading'
                   /\ outcome # "ok" => refreshCount' = refreshCount]_vars

\* the query requests, and the login requests, in flight
QueriesInFlight(ss) ==
    Cardinality({s \in DOMAIN ss : ss[s].pc = "query"})

LoginsInFlight(as) ==
    Cardinality({q \in as : q.pc = "auth"})

\* C38: a query request is put in flight only by an accepted submit, which
\* sends exactly one, and a login request only by a login call, which sends
\* exactly one; the completion of either, whatever the response, sends none.
C38_NoAutomaticRetry ==
    [][/\ \A s \in DOMAIN subs :
             /\ (subs[s].pc # "query" /\ subs'[s].pc = "query")
                   => (~SubmitRejected /\ HandleSubmit(MaxSubmits) /\ s = nSubmits')
             /\ QueryResponse(s, ChatAnswers, {1}, MaxChatChunks)
                   => QueriesInFlight(subs') = QueriesInFlight(subs) - 1
       /\ (~SubmitRejected /\ HandleSubmit(MaxSubmits))
             => QueriesInFlight(subs') = QueriesInFlight(subs) + 1
       /\ (\E q \in auths' \ auths : q.pc = "auth") => BeginAuth("login")
       /\ BeginAuth("login") => LoginsInFlight(auths') = LoginsInFlight(auths) + 1
       /\ \A r \in auths, outcome \in FetchOutcomes :
             AuthResponse(r, outcome)
                => LoginsInFlight(auths') = LoginsInFlight(auths) - 1]_vars

\* a query and a login were both answered by an error response (such as 429),
\* and no request is in flight
C38_Witness ==
    /\ ev.op = "completion"
    /\ ev.kind = "error"
    /\ QueriesInFlight(subs) = 0
    /\ aev = "authThrown"
    /\ auths = {}

\* C39 as stated: a step in which a login attempt ends by throwing ends an
\* attempt that has stored no credential, and changes neither the token, nor
\* local storage, nor the user; every failed credential request throws; and
\* every step that ends a login or register attempt leaves the loading flag
\* false.
C39_FailedLoginChangesNothing ==
    [][\A r \in auths, outcome \in FetchOutcomes :
          /\ (/\ r.kind = "login"
              /\ AuthResponse(r, outcome) \/ MeResponse(r, outcome)
              /\ aev' = "authThrown")
                => /\ r.pc = "auth"
                   /\ UNCHANGED <<token, heldToken, storedToken, user>>
          /\ (AuthResponse(r, outcome) /\ outcome # "ok")
                => /\ aev' = "authThrown"
                   /\ ~isLoading'
          /\ MeResponse(r, outcome) => ~isLoading']_vars

\* C39, amended: a login attempt whose login request fails (a non-success
\* response or no response) throws and changes neither the token, nor local
\* storage, nor the user; and every step that ends a login or register attempt
\* leaves the loading flag false.
C39_FailedLoginRequestChangesNothing ==
    [][\A r \in auths, outcome \in FetchOutcomes :
          /\ (r.kind = "login" /\ AuthResponse(r, outcome) /\ outcome # "ok")
                => /\ aev' = "authThrown"
                   /\ UNCHANGED <<token, heldToken, storedToken, user>>
          /\ (AuthResponse(r, outcome) /\ outcome # "ok") => ~isLoading'
          /\ MeResponse(r, outcome) => ~isLoading']_vars

\* a login request has failed: the credential is the one the page was loaded
\* with, no user is held and nothing is loading
C39_Witness ==
    /\ aev = "authThrown"
    /\ auths = {}
    /\ ~isLoading
    /\ ~user
    /\ heldToken = STORED_AT_LOAD
    /\ storedToken = STORED_AT_LOAD

=============================================================================
